---- MODULE Spec2Model ----
(***************************************************************************)
(* Chirpy (polyfant/chirpy): the HTTP handlers of main.go (storage-backed  *)
(* variant) and of the in-memory variant, the atomic hit counter, the      *)
(* response helpers and the profanity filter.                              *)
(*                                                                         *)
(* A Go string is modelled as a sequence of Unicode code points; len(s) of *)
(* Go is the number of bytes of its UTF-8 encoding (ByteLen).              *)
(***************************************************************************)
EXTENDS Integers, Sequences, FiniteSets, TLC

\* ------------------------------------------------------------------ bounds
MaxPieces == 4      \* pieces concatenated into an input of cleanProfanity
MaxConc == 2        \* requests in flight at the same time
MaxRequests == 3    \* requests accepted in one behaviour

\* ------------------------------------------------- strings (Go semantics)
\* utf8.RuneLen: bytes of the UTF-8 encoding of one code point
RuneLen(c) == IF c < 128 THEN 1 ELSE IF c < 2048 THEN 2 ELSE IF c < 65536 THEN 3 ELSE 4

RECURSIVE ByteLenRange(_, _, _)
\* bytes of s[lo..hi], summed by halves
ByteLenRange(s, lo, hi) ==
    IF lo > hi THEN 0
    ELSE IF lo = hi THEN RuneLen(s[lo])
    ELSE LET mid == (lo + hi) \div 2
         IN  ByteLenRange(s, lo, mid) + ByteLenRange(s, mid + 1, hi)

\* len(s) of Go: the number of BYTES of s
ByteLen(s) == ByteLenRange(s, 1, Len(s))

\* number of characters (code points) of s
CharLen(s) == Len(s)

\* unicode.IsSpace, as used by strings.Fields
IsSpace(c) ==
    \/ c \in {9, 10, 11, 12, 13, 32}
    \/ c \in {133, 160, 5760, 8232, 8233, 8239, 8287, 12288}
    \/ c \in 8192..8202

\* unicode.ToLower on one code point (ASCII and Latin-1 letters)
LowerRune(c) ==
    IF c \in 65..90 THEN c + 32
    ELSE IF c \in 192..222 /\ c # 215 THEN c + 32
    ELSE c

ToLowerIdentity(s) == s

\* strings.ToLower
ToLower(s) == [i \in 1..Len(s) |-> LowerRune(s[i])]

RECURSIVE FieldsFrom(_, _)
\* the scan of strings.Fields from index i: skip the white space, take the
\* run of non-space characters up to the next white space or the end, go on
FieldsFrom(s, i) ==
    LET starts == {j \in i..Len(s) : ~ IsSpace(s[j])}
    IN  IF starts = {} THEN <<>>
        ELSE LET start == CHOOSE j \in starts : \A k \in starts : j <= k
                 stops == {j \in start..Len(s) : IsSpace(s[j])}
                 end == IF stops = {} THEN Len(s)
                        ELSE (CHOOSE j \in stops : \A k \in stops : j <= k) - 1
             IN  <<SubSeq(s, start, end)>> \o FieldsFrom(s, end + 1)

\* strings.Fields
Fields(s) == FieldsFrom(s, 1)

RECURSIVE JoinTrailing(_, _)
JoinTrailing(words, sep) ==
    IF words = <<>> THEN <<>>
    ELSE Head(words) \o sep \o JoinTrailing(Tail(words), sep)

RECURSIVE Join(_, _)
\* strings.Join
Join(words, sep) ==
    IF words = <<>> THEN <<>>
    ELSE IF Len(words) = 1 THEN Head(words)
    ELSE Head(words) \o sep \o Join(Tail(words), sep)

\* the banned words of cleanProfanity, as code points
Kerfuffle == <<107, 101, 114, 102, 117, 102, 102, 108, 101>>
Sharbert == <<115, 104, 97, 114, 98, 101, 114, 116>>
Fornax == <<102, 111, 114, 110, 97, 120>>
profaneWords == {Kerfuffle, Sharbert, Fornax}

\* "****"
Stars == <<42, 42, 42, 42>>

\* " "
Space == <<32>>

cleanProfanity(body) ==
    LET words == Fields(body)
        cleanedWords == [i \in 1..Len(words) |->
                            IF ToLower(words[i]) \in profaneWords
                            THEN Stars ELSE words[i]]
    IN  Join(cleanedWords, Space)

\* ------------------------------------------------------ response helpers
\* a fresh http.ResponseWriter: no header written, nothing in the body
NewResponseWriter == [wrote |-> 0, status |-> 0, contentType |-> "", body |-> <<>>]

\* w.Header().Set("Content-Type", v): no effect once the header is written
SetContentType(w, v) == IF w.wrote = 0 THEN [w EXCEPT !.contentType = v] ELSE w

\* w.WriteHeader(code): the first call fixes the status, later calls are
\* superfluous (net/http ignores them)
WriteHeader(w, code) ==
    IF w.wrote = 0 THEN [w EXCEPT !.wrote = 1, !.status = code]
    ELSE [w EXCEPT !.wrote = @ + 1]

\* w.Write(b): an implicit WriteHeader(200) if none was written; writing nil
\* or an empty slice adds nothing to the body
Write(w, b) ==
    LET h == IF w.wrote = 0 THEN [w EXCEPT !.wrote = 1, !.status = 200] ELSE w
    IN  IF b.nil THEN h ELSE [h EXCEPT !.body = Append(@, b.data)]

\* []byte values: nil, or the data
NilBytes == [nil |-> TRUE, data |-> [none |-> TRUE]]
Bytes(d) == [nil |-> FALSE, data |-> d]

\* payload kinds encoding/json cannot serialise (channel, func, NaN float)
UnsupportedKinds == {"chan", "func", "nan"}

\* json.Marshal: (bytes, err); on error the bytes are nil
Marshal(payload) ==
    IF payload.kind \in UnsupportedKinds
    THEN [bytes |-> NilBytes, err |-> TRUE]
    ELSE [bytes |-> Bytes([json |-> payload]), err |-> FALSE]

respondWithJSON(w, code, payload) ==
    LET response == Marshal(payload).bytes    \* the error is discarded
    IN  Write(WriteHeader(SetContentType(w, "application/json"), code), response)

ErrorPayload(msg) == [kind |-> "error", error |-> msg]

respondWithError(w, code, msg) == respondWithJSON(w, code, ErrorPayload(msg))

\* ------------------------------------------------------------ the server
VARIABLES
    variant,         \* "memory" (counter only) or "storage" (main.go)
    platform,        \* apiConfig.platform, from the PLATFORM environment variable
    fileserverHits,  \* apiConfig.fileserverHits (atomic.Int32)
    users,           \* rows of the users table
    chirps,          \* rows of the chirps table
    reqs,            \* requests in flight: slot -> request
    accepted,        \* number of requests accepted so far
    last,            \* the response of the request that completed last
    added,           \* history: Add(1) calls since the last Store(0)
    lastCall,        \* history: the storage accessor called in the last step
    body,            \* cleanProfanity: the argument
    cleaned,         \* cleanProfanity: the result
    recleaned,       \* cleanProfanity applied to its own result
    mpc,             \* cleanProfanity: "input", "cleaned" or "recleaned"
    npieces,         \* cleanProfanity: pieces the argument was put together from
    rw,              \* respondWithJSON: the ResponseWriter
    rcall,           \* respondWithJSON: the arguments of the call
    rpc              \* respondWithJSON: "idle", "called" or "responded"

serverVars == <<variant, platform, fileserverHits, users, chirps, reqs,
                accepted, last, added, lastCall>>
cleanVars == <<body, cleaned, recleaned, mpc, npieces>>
respondVars == <<rw, rcall, rpc>>
vars == <<serverVars, cleanVars, respondVars>>

Slots == 1..MaxConc
Platforms == {"dev", "prod", ""}
Emails == {"a@b.com", "c@d.com"}
UserIDs == {1}

\* strings.Repeat
Repeat(s, n) == [i \in 1..(n * Len(s)) |-> s[((i - 1) % Len(s)) + 1]]

\* "this is a kerfuffle"
ThisIsAKerfuffle == <<116, 104, 105, 115, 32, 105, 115, 32, 97, 32>> \o Kerfuffle
\* "hello"
Hello == <<104, 101, 108, 108, 111>>
\* the chirp bodies submitted: around the limit in bytes and in characters
\* (233 is U+00E9, two bytes in UTF-8)
ChirpBodies ==
    { ThisIsAKerfuffle, Repeat(<<97>>, 140), Repeat(<<97>>, 141), Repeat(<<233>>, 71) }

\* the chirp length limit of handlerCreateChirp
MaxChirpLength == 140

\* ---------------------------------------------------------- hit counter
AddStoresDelta(v, delta) == delta

\* atomic.Int32.Add: one indivisible read-modify-write, wrapping at 32 bits
AtomicAdd(v, delta) ==
    IF v > 2147483647 - delta
    THEN ((v - 2147483647) + (delta - 1)) - 2147483647 - 1
    ELSE v + delta

\* atomic.Int32.Load
AtomicLoad(v) == v

\* ------------------------------------ storage collaborator (database pkg)
\* error texts, as sequences of words
DuplicateKeyError ==
    <<"pq:", "duplicate", "key", "value", "violates", "unique", "constraint">>
ForeignKeyError ==
    <<"pq:", "insert", "violates", "foreign", "key", "constraint">>
ConnectionError == <<"context", "canceled">>
NoError == <<>>

\* the smallest identifier not used by the rows
NewID(rows) == CHOOSE n \in 1..(Cardinality(rows) + 1) :
                   /\ \A row \in rows : row.id # n
                   /\ \A m \in 1..(n - 1) : \E row \in rows : row.id = m

\* Queries.CreateUser: the users table has a unique email; fault is a failure
\* unrelated to the row (connection lost, request context cancelled)
CreateUser(email, fault) ==
    IF fault THEN [err |-> ConnectionError, users |-> users]
    ELSE IF \E u \in users : u.email = email
    THEN [err |-> DuplicateKeyError, users |-> users]
    ELSE [err |-> NoError,
          row |-> [id |-> NewID(users), email |-> email],
          users |-> users \cup {[id |-> NewID(users), email |-> email]}]

\* Queries.CreateChirp: user_id references users(id)
CreateChirp(params, fault) ==
    IF fault THEN [err |-> ConnectionError, chirps |-> chirps]
    ELSE IF ~ \E u \in users : u.id = params.user_id
    THEN [err |-> ForeignKeyError, chirps |-> chirps]
    ELSE [err |-> NoError, row |-> params, chirps |-> chirps \cup {params}]

\* Queries.DeleteAllUsers: chirps go with their users (ON DELETE CASCADE)
DeleteAllUsers(fault) ==
    IF fault THEN [err |-> ConnectionError, users |-> users, chirps |-> chirps]
    ELSE [err |-> NoError, users |-> {}, chirps |-> {}]

\* strings.Contains on texts taken as sequences of words
Contains(s, substr) ==
    \E i \in 1..(Len(s) - Len(substr) + 1) :
        SubSeq(s, i, i + Len(substr) - 1) = substr

\* --------------------------------------------------------------- requests
\* the storage accessor a step calls ("none": the step calls none)
Called(accessor) == lastCall' = accessor

NoArg == [valid |-> TRUE, email |-> "", body |-> <<>>, user_id |-> 0]
IdleReq == [kind |-> "none", pc |-> "idle", arg |-> NoArg, err |-> <<>>]

\* the routes registered on the mux, per variant
Routes ==
    IF variant = "memory" THEN {"app", "healthz", "metrics", "reset"}
    ELSE {"app", "healthz", "metrics", "reset", "users", "chirps"}

\* the decoded request bodies a route can receive (valid = FALSE: the JSON
\* decoder returns an error)
Args(kind) ==
    IF kind = "users"
        THEN {[NoArg EXCEPT !.valid = FALSE]} \cup {[NoArg EXCEPT !.email = e] : e \in Emails}
    ELSE IF kind = "chirps"
        THEN {[NoArg EXCEPT !.valid = FALSE]}
             \cup {[NoArg EXCEPT !.body = b, !.user_id = u] : b \in ChirpBodies, u \in UserIDs}
    ELSE {NoArg}

\* the server accepts a request and dispatches it to a handler goroutine
Arrive(s, kind, arg) ==
    /\ accepted < MaxRequests
    /\ reqs[s].pc = "idle"
    /\ \A t \in 1..(s - 1) : reqs[t].pc # "idle"
    /\ kind \in Routes
    /\ arg \in Args(kind)
    /\ reqs' = [reqs EXCEPT ![s] = [kind |-> kind, pc |-> "handling", arg |-> arg,
                                     err |-> <<>>]]
    /\ accepted' = accepted + 1
    /\ UNCHANGED <<variant, platform, fileserverHits, users, chirps, last, added>>
    /\ Called("none")
    /\ UNCHANGED <<cleanVars, respondVars>>

Handling(s, kind) == reqs[s].pc = "handling" /\ reqs[s].kind = kind

\* the handler of slot s returns, having written w; err is the error the
\* storage collaborator returned to it (NoError if none or not called)
Complete(s, w, err) ==
    /\ reqs' = [reqs EXCEPT ![s] = IdleReq]
    /\ last' = [kind |-> reqs[s].kind, arg |-> reqs[s].arg,
                w |-> w, err |-> err]
    /\ UNCHANGED <<variant, platform, accepted>>
    /\ UNCHANGED <<cleanVars, respondVars>>

handlerReadiness(s) ==
    /\ Handling(s, "healthz")
    /\ Complete(s, Write(WriteHeader(SetContentType(NewResponseWriter,
                        "text/plain; charset=utf-8"), 200), Bytes([text |-> "OK"])),
                NoError)
    /\ UNCHANGED <<fileserverHits, users, chirps, added>>
    /\ Called("none")

\* GET /app/*: the counter is incremented, then the file server answers
\* (200 with the file, or 404)
middlewareMetricsInc(s) ==
    /\ Handling(s, "app")
    /\ fileserverHits' = AtomicAdd(fileserverHits, 1)
    /\ added' = added + 1
    /\ \E found \in BOOLEAN :
          Complete(s, Write(WriteHeader(NewResponseWriter, IF found THEN 200 ELSE 404),
                            Bytes([file |-> found])), NoError)
    /\ UNCHANGED <<users, chirps>>
    /\ Called("none")

handlerMetricsCounting(s) ==
    /\ Handling(s, "metrics")
    /\ fileserverHits' = AtomicAdd(fileserverHits, 1)
    /\ Complete(s, Write(WriteHeader(NewResponseWriter, 200),
                         Bytes([hits |-> fileserverHits'])), NoError)
    /\ UNCHANGED <<users, chirps, added>>
    /\ Called("none")

handlerMetrics(s) ==
    /\ Handling(s, "metrics")
    /\ Complete(s, Write(WriteHeader(SetContentType(NewResponseWriter,
                            IF variant = "memory" THEN "text/plain; charset=utf-8"
                            ELSE "text/html; charset=utf-8"), 200),
                         Bytes([hits |-> AtomicLoad(fileserverHits)])), NoError)
    /\ UNCHANGED <<fileserverHits, users, chirps, added>>
    /\ Called("none")

\* handlerReset of the in-memory variant
handlerResetMemory(s) ==
    /\ variant = "memory"
    /\ Handling(s, "reset")
    /\ fileserverHits' = 0
    /\ added' = 0
    /\ Complete(s, Write(WriteHeader(SetContentType(NewResponseWriter,
                            "text/plain; charset=utf-8"), 200),
                         Bytes([text |-> "Hits counter reset to 0"])), NoError)
    /\ UNCHANGED <<users, chirps>>
    /\ Called("none")

ForbiddenOnlyProd(p) == p = "prod"

\* the gate of handlerReset
resetForbidden(p) == p # "dev"

handlerResetIgnoringErr(s) ==
    /\ variant = "storage"
    /\ Handling(s, "reset")
    /\ IF resetForbidden(platform)
       THEN /\ Complete(s, respondWithError(NewResponseWriter, 403, "Forbidden"), NoError)
            /\ UNCHANGED <<fileserverHits, users, chirps, added>>
            /\ Called("none")
       ELSE \E fault \in BOOLEAN :
              LET res == DeleteAllUsers(fault) IN
              /\ Called("DeleteAllUsers")
              /\ users' = res.users
              /\ chirps' = res.chirps
              /\ reqs' = [reqs EXCEPT ![s].pc = "store", ![s].err = res.err]
              /\ UNCHANGED <<variant, platform, fileserverHits, accepted, last, added>>
              /\ UNCHANGED <<cleanVars, respondVars>>

\* handlerReset of the storage-backed variant, up to the return of
\* DeleteAllUsers
handlerReset(s) ==
    /\ variant = "storage"
    /\ Handling(s, "reset")
    /\ IF resetForbidden(platform)
       THEN /\ Complete(s, respondWithError(NewResponseWriter, 403, "Forbidden"), NoError)
            /\ UNCHANGED <<fileserverHits, users, chirps, added>>
            /\ Called("none")
       ELSE \E fault \in BOOLEAN :
              LET res == DeleteAllUsers(fault) IN
              /\ Called("DeleteAllUsers")
              /\ users' = res.users
              /\ chirps' = res.chirps
              /\ IF res.err # NoError
                 THEN /\ Complete(s, respondWithError(NewResponseWriter, 500,
                                        "Couldn't reset database"), res.err)
                      /\ UNCHANGED <<fileserverHits, added>>
                 ELSE /\ reqs' = [reqs EXCEPT ![s].pc = "store", ![s].err = res.err]
                      /\ UNCHANGED <<variant, platform, fileserverHits, accepted,
                                     last, added>>
                      /\ UNCHANGED <<cleanVars, respondVars>>

\* handlerReset of the storage-backed variant, after DeleteAllUsers
\* succeeded: Store(0) and the 200
handlerResetStore(s) ==
    /\ reqs[s].pc = "store"
    /\ fileserverHits' = 0
    /\ added' = 0
    /\ Complete(s, WriteHeader(NewResponseWriter, 200), NoError)
    /\ UNCHANGED <<users, chirps>>
    /\ Called("none")

DuplicateEmailText == <<"duplicate", "email">>

\* the text handlerCreateUser looks for in the error of CreateUser
DuplicateKeyText == <<"duplicate", "key", "value">>

handlerCreateUser(s) ==
    /\ Handling(s, "users")
    /\ IF ~ reqs[s].arg.valid
       THEN /\ Complete(s, respondWithError(NewResponseWriter, 400,
                                            "Invalid request body"), NoError)
            /\ UNCHANGED <<fileserverHits, users, chirps, added>>
            /\ Called("none")
       ELSE \E fault \in BOOLEAN :
              LET res == CreateUser(reqs[s].arg.email, fault) IN
              /\ Called("CreateUser")
              /\ users' = res.users
              /\ IF res.err # NoError
                 THEN IF Contains(res.err, DuplicateKeyText)
                      THEN Complete(s, respondWithError(NewResponseWriter, 400,
                                                        "Email already exists"), res.err)
                      ELSE Complete(s, respondWithError(NewResponseWriter, 500,
                                                        "Couldn't create user"), res.err)
                 ELSE Complete(s, respondWithJSON(NewResponseWriter, 201,
                                    [kind |-> "user", id |-> res.row.id,
                                     email |-> res.row.email]), NoError)
              /\ UNCHANGED <<fileserverHits, chirps, added>>

\* the length test of handlerCreateChirp: len() counts bytes
tooLong(b) == ByteLen(b) > MaxChirpLength

handlerCreateChirp(s) ==
    /\ Handling(s, "chirps")
    /\ IF ~ reqs[s].arg.valid
       THEN /\ Complete(s, respondWithError(NewResponseWriter, 400,
                                            "Invalid request payload"), NoError)
            /\ UNCHANGED <<fileserverHits, users, chirps, added>>
            /\ Called("none")
       ELSE IF tooLong(reqs[s].arg.body)
       THEN /\ Complete(s, respondWithError(NewResponseWriter, 400,
                                            "Chirp is too long"), NoError)
            /\ UNCHANGED <<fileserverHits, users, chirps, added>>
            /\ Called("none")
       ELSE \E fault \in BOOLEAN :
              LET res == CreateChirp([id |-> NewID(chirps),
                                      body |-> reqs[s].arg.body,
                                      user_id |-> reqs[s].arg.user_id], fault) IN
              /\ Called("CreateChirp")
              /\ chirps' = res.chirps
              /\ IF res.err # NoError
                 THEN Complete(s, respondWithError(NewResponseWriter, 500,
                                                   "Couldn't create chirp"), res.err)
                 ELSE Complete(s, respondWithJSON(NewResponseWriter, 201,
                                    [kind |-> "chirp", id |-> res.row.id,
                                     body |-> res.row.body,
                                     user_id |-> res.row.user_id]), NoError)
              /\ UNCHANGED <<fileserverHits, users, added>>

NoLast == [kind |-> "none", arg |-> NoArg, w |-> NewResponseWriter,
           err |-> NoError]

InitClean ==
    /\ body = <<>>
    /\ cleaned = <<>>
    /\ recleaned = <<>>
    /\ mpc = "input"
    /\ npieces = 0

InitRespond ==
    /\ rw = NewResponseWriter
    /\ rcall = [fn |-> "none", code |-> 0, payload |-> [kind |-> "none"]]
    /\ rpc = "idle"

\* main(): the counter starts at 0; platform is read from the environment
Init ==
    /\ variant \in {"memory", "storage"}
    /\ platform \in (IF variant = "memory" THEN {""} ELSE Platforms)
    /\ fileserverHits = 0
    /\ users = {}
    /\ chirps = {}
    /\ reqs = [s \in Slots |-> IdleReq]
    /\ accepted = 0
    /\ last = NoLast
    /\ added = 0
    /\ lastCall = "none"
    /\ InitClean
    /\ InitRespond

Next ==
    \/ \E s \in Slots, kind \in {"app", "healthz", "metrics", "reset", "users", "chirps"} :
          \E arg \in Args(kind) : Arrive(s, kind, arg)
    \/ \E s \in Slots : handlerReadiness(s)
    \/ \E s \in Slots : middlewareMetricsInc(s)
    \/ \E s \in Slots : handlerMetrics(s)
    \/ \E s \in Slots : handlerResetMemory(s)
    \/ \E s \in Slots : handlerReset(s)
    \/ \E s \in Slots : handlerResetStore(s)
    \/ \E s \in Slots : handlerCreateUser(s)
    \/ \E s \in Slots : handlerCreateChirp(s)

Spec == Init /\ [][Next]_vars

\* ------------------------------------------- cleanProfanity on its own
\* "KerFuffle", "SHARBERT", "Fornax"
KerFuffleMixed == <<75, 101, 114, 70, 117, 102, 102, 108, 101>>
SharbertUpper == <<83, 72, 65, 82, 66, 69, 82, 84>>
FornaxCapital == <<70, 111, 114, 110, 97, 120>>

\* the pieces an input is put together from: banned words in several
\* casings, "!", "a", and white space (space, tab, U+3000)
Pieces == { Kerfuffle, KerFuffleMixed, SharbertUpper, FornaxCapital,
            <<33>>, <<97>>, <<32>>, <<9>>, <<12288>> }

ExtendBody(p) ==
    /\ mpc = "input"
    /\ npieces < MaxPieces
    /\ body' = body \o p
    /\ npieces' = npieces + 1
    /\ UNCHANGED <<cleaned, recleaned, mpc>>
    /\ UNCHANGED <<serverVars, respondVars>>

CallCleanProfanity ==
    /\ mpc = "input"
    /\ cleaned' = cleanProfanity(body)
    /\ mpc' = "cleaned"
    /\ UNCHANGED <<body, npieces, recleaned>>
    /\ UNCHANGED <<serverVars, respondVars>>

CallCleanProfanityAgain ==
    /\ mpc = "cleaned"
    /\ recleaned' = cleanProfanity(cleaned)
    /\ mpc' = "recleaned"
    /\ UNCHANGED <<body, npieces, cleaned>>
    /\ UNCHANGED <<serverVars, respondVars>>

NextClean ==
    \/ \E p \in Pieces : ExtendBody(p)
    \/ CallCleanProfanity
    \/ CallCleanProfanityAgain

\* the server is not running: one configuration is enough
InitQuiet == Init /\ variant = "storage" /\ platform = "dev"

SpecClean == InitQuiet /\ [][NextClean]_vars

\* ------------------------------------------ respondWithJSON on its own
StatusCodes == {200, 201, 400, 403, 404, 409, 500}
Payloads ==
    {ErrorPayload(m) : m \in {"Forbidden", "Chirp is too long", "Email already exists"}}
    \cup {[kind |-> "user", id |-> 1, email |-> "a@b.com"]}
    \cup {[kind |-> "chirp", id |-> 1, body |-> Hello, user_id |-> 1]}
    \cup {[kind |-> k] : k \in UnsupportedKinds}

\* a handler is about to answer on a fresh ResponseWriter
PrepareCall(fn, code, payload) ==
    /\ rpc = "idle"
    /\ fn = "respondWithError" => payload.kind = "error"
    /\ rcall' = [fn |-> fn, code |-> code, payload |-> payload]
    /\ rw' = NewResponseWriter
    /\ rpc' = "called"
    /\ UNCHANGED <<serverVars, cleanVars>>

CallRespondWithJSON ==
    /\ rpc = "called"
    /\ rcall.fn = "respondWithJSON"
    /\ rw' = respondWithJSON(rw, rcall.code, rcall.payload)
    /\ rpc' = "responded"
    /\ UNCHANGED rcall
    /\ UNCHANGED <<serverVars, cleanVars>>

CallRespondWithError ==
    /\ rpc = "called"
    /\ rcall.fn = "respondWithError"
    /\ rw' = respondWithError(rw, rcall.code, rcall.payload.error)
    /\ rpc' = "responded"
    /\ UNCHANGED rcall
    /\ UNCHANGED <<serverVars, cleanVars>>

NextRespond ==
    \/ \E fn \in {"respondWithJSON", "respondWithError"}, code \in StatusCodes,
          payload \in Payloads : PrepareCall(fn, code, payload)
    \/ CallRespondWithJSON
    \/ CallRespondWithError

SpecRespond == InitQuiet /\ [][NextRespond]_vars

\* ================================================================ claims
\* the step in which the handler of slot s moves
Moves(s) == reqs'[s] # reqs[s] /\ reqs[s].pc # "idle"
\* the step in which the handler of slot s returns
Returns(s) == Moves(s) /\ reqs'[s].pc = "idle"
ErrorBody(msg) == <<[json |-> ErrorPayload(msg)]>>

\* C1: no lost updates: the counter equals the number of Add(1) calls made
\* by middlewareMetricsInc since the start or since the last Store(0),
\* however the requests interleave; right after a reset it is 0.
C1_NoLostUpdates == fileserverHits = added

\* two /app/ requests were counted while a third is in flight
C1_Witness ==
    /\ fileserverHits = 2
    /\ \E s \in Slots : Handling(s, "app")

\* C2: a reset with platform # "dev" answers 403, calls no storage accessor
\* and leaves the counter, the users and the chirps unchanged.
C2_ForbiddenResetChangesNothing ==
    [][\A s \in Slots :
          (variant = "storage" /\ platform # "dev" /\ reqs[s].kind = "reset" /\ Moves(s))
          => /\ Returns(s)
             /\ last'.kind = "reset"
             /\ last'.w.status = 403
             /\ last'.w.wrote = 1
             /\ lastCall' = "none"
             /\ fileserverHits' = fileserverHits
             /\ users' = users
             /\ chirps' = chirps]_vars

\* a forbidden reset was answered while there were hits and users to lose
C2_Witness ==
    /\ last.kind = "reset"
    /\ last.w.status = 403
    /\ platform # "dev"
    /\ fileserverHits > 0
    /\ users # {}

\* C3: with platform "dev" the reset calls DeleteAllUsers first and leaves
\* the counter alone in that step; on failure it answers 500 and returns,
\* only on success does it go on to Store(0) and the 200.
C3_ResetStoresAfterDelete ==
    [][\A s \in Slots :
          (variant = "storage" /\ platform = "dev" /\ reqs[s].kind = "reset" /\ Moves(s))
          => IF reqs[s].pc = "handling"
             THEN /\ lastCall' = "DeleteAllUsers"
                  /\ fileserverHits' = fileserverHits
                  /\ \/ /\ reqs'[s].pc = "store"
                        /\ reqs'[s].err = NoError
                        /\ users' = {} /\ chirps' = {}
                     \/ /\ Returns(s)
                        /\ last'.err # NoError
                        /\ last'.w.status = 500
                        /\ last'.w.body = ErrorBody("Couldn't reset database")
                        /\ users' = users /\ chirps' = chirps
             ELSE /\ reqs[s].pc = "store"
                  /\ reqs[s].err = NoError
                  /\ Returns(s)
                  /\ fileserverHits' = 0
                  /\ last'.w.status = 200
                  /\ lastCall' = "none"]_vars

\* a reset failed in DeleteAllUsers and the counter kept its hits
C3_Witness ==
    /\ platform = "dev"
    /\ last.kind = "reset"
    /\ last.w.status = 500
    /\ fileserverHits > 0

\* C4: no stored chirp body has a token that is a banned word in any
\* casing, and "this is a kerfuffle" is answered 201 with "this is a ****".
C4_StoredBodiesAreClean ==
    /\ \A c \in chirps : \A i \in 1..Len(Fields(c.body)) :
          ToLower(Fields(c.body)[i]) \notin profaneWords
    /\ (last.kind = "chirps" /\ last.arg.body = ThisIsAKerfuffle /\ last.w.status = 201)
       => last.w.body[1].json.body =
            <<116, 104, 105, 115, 32, 105, 115, 32, 97, 32>> \o Stars

\* C5: a well-formed chirp request is rejected as too long, without a
\* CreateChirp call, exactly when its body has more than 140 CHARACTERS;
\* no stored body has more than 140 characters.
C5_TooLongCountsCharacters ==
    [][\A s \in Slots :
          (Handling(s, "chirps") /\ reqs[s].arg.valid /\ Moves(s))
          => LET rejected == /\ last'.w.status = 400
                             /\ last'.w.body = ErrorBody("Chirp is too long")
             IN  /\ rejected <=> CharLen(reqs[s].arg.body) > 140
                 /\ rejected => (lastCall' = "none" /\ chirps' = chirps)
                 /\ \A c \in chirps' : CharLen(c.body) <= 140]_vars

EmailsUnique == \A u1, u2 \in users : u1.email = u2.email => u1 = u2

\* C6 as claimed: a registration whose email is already stored gets a
\* 400/409 conflict, never 201 or 500, and the users stay as they are.
C6_DuplicateGetsConflict ==
    [][\A s \in Slots :
          (Handling(s, "users") /\ reqs[s].arg.valid /\ Moves(s)
             /\ \E u \in users : u.email = reqs[s].arg.email)
          => /\ last'.w.status \in {400, 409}
             /\ users' = users]_vars

\* C6 as amended: emails stay unique; a registration whose email is already
\* stored never gets 201 and never changes the users; it gets the 400
\* "Email already exists" whenever the collaborator reports the duplicate
\* key, and 500 only when the collaborator fails for another reason.
C6_DuplicateNeverCreates ==
    [][/\ EmailsUnique'
       /\ \A s \in Slots :
          (Handling(s, "users") /\ reqs[s].arg.valid /\ Moves(s)
             /\ \E u \in users : u.email = reqs[s].arg.email)
          => /\ Returns(s)
             /\ users' = users
             /\ last'.err # NoError
             /\ IF last'.err = DuplicateKeyError
                THEN /\ last'.w.status = 400
                     /\ last'.w.body = ErrorBody("Email already exists")
                ELSE /\ last'.w.status = 500
                     /\ last'.w.body = ErrorBody("Couldn't create user")]_vars

\* a second registration of a stored email was answered with the conflict
C6_Witness ==
    /\ last.kind = "users"
    /\ last.err = DuplicateKeyError
    /\ last.w.status = 400
    /\ \E u \in users : u.email = last.arg.email

\* the white-space-delimited tokens of s, as the set of their <<first, last>>
\* positions: maximal runs of characters that are not white space
TokenSpans(s) ==
    LET firsts == {i \in 1..Len(s) : ~ IsSpace(s[i]) /\ (i = 1 \/ IsSpace(s[i - 1]))}
        lasts == {j \in 1..Len(s) : ~ IsSpace(s[j]) /\ (j = Len(s) \/ IsSpace(s[j + 1]))}
    IN  {sp \in firsts \X lasts :
            /\ sp[1] <= sp[2]
            /\ \A k \in sp[1]..sp[2] : ~ IsSpace(s[k])}

\* the k-th of the tokens of s at the positions spans, in order of position
Token(s, spans, k) ==
    LET sp == CHOOSE x \in spans : Cardinality({y \in spans : y[1] < x[1]}) = k - 1
    IN  SubSeq(s, sp[1], sp[2])

\* equality of two strings up to the case of their letters
EqualFold(a, b) ==
    /\ Len(a) = Len(b)
    /\ \A i \in 1..Len(a) : LowerRune(a[i]) = LowerRune(b[i])

\* what a token must become
Moderated(tok) == IF \E w \in profaneWords : EqualFold(tok, w) THEN Stars ELSE tok

\* out is the tokens of in, in order, each moderated, with exactly one
\* space between two of them and nothing before or after
IsModerationOf(out, in) ==
    LET tin == TokenSpans(in)
        tout == TokenSpans(out)
    IN  /\ Cardinality(tout) = Cardinality(tin)
        /\ \A k \in 1..Cardinality(tin) :
              Token(out, tout, k) = Moderated(Token(in, tin, k))
        /\ \A i \in 1..Len(out) : IsSpace(out[i]) =>
              /\ out[i] = 32
              /\ 1 < i /\ i < Len(out)
              /\ ~ IsSpace(out[i + 1])

\* C7: cleanProfanity replaces whole tokens: its result is the tokens of the
\* body in order, joined by single spaces, each token that is a banned word
\* in any casing replaced by "****" and every other token unchanged.
C7_WholeTokenReplacement ==
    mpc # "input" => IsModerationOf(cleaned, body)

\* "KerFuffle<tab>kerfuffle!" became "**** kerfuffle!"
C7_Witness ==
    /\ mpc = "cleaned"
    /\ body = KerFuffleMixed \o <<9>> \o Kerfuffle \o <<33>>
    /\ cleaned = Stars \o <<32>> \o Kerfuffle \o <<33>>

\* C8: respondWithJSON writes exactly one response per invocation, and a
\* payload that does not serialise is answered with a bare 500 and no body,
\* not with the caller's status code.
C8_OneResponse500OnMarshalFailure ==
    rpc = "responded" =>
        /\ rw.wrote = 1
        /\ Marshal(rcall.payload).err => (rw.status = 500 /\ rw.body = <<>>)

\* C9: the counter changes only in the Add(1) of an /app/ request and in the
\* Store(0) of a reset that answers 200; a handler that answers 400, 403 or
\* 500, the readiness handler and the metrics handler leave it unchanged.
C9_FailuresLeaveCounter ==
    [][/\ fileserverHits' # fileserverHits
          => \E s \in Slots :
                /\ Returns(s)
                /\ \/ reqs[s].kind = "app" /\ fileserverHits' = fileserverHits + 1
                   \/ /\ reqs[s].kind = "reset"
                      /\ last'.w.status = 200
                      /\ fileserverHits' = 0
       /\ \A s \in Slots :
             (/\ Returns(s)
              /\ \/ reqs[s].kind \in {"healthz", "metrics"}
                 \/ /\ reqs[s].kind \in {"users", "chirps", "reset"}
                    /\ last'.w.status \in {400, 403, 500})
             => fileserverHits' = fileserverHits]_vars

\* a chirp request failed in the storage while the counter had hits
C9_Witness ==
    /\ last.kind = "chirps"
    /\ last.w.status = 500
    /\ fileserverHits > 0

\* C10: cleanProfanity never lengthens its input, in bytes or in characters,
\* and applying it to its own result changes nothing.
C10_NeverLongerAndIdempotent ==
    /\ mpc # "input" => /\ ByteLen(cleaned) <= ByteLen(body)
                        /\ CharLen(cleaned) <= CharLen(body)
    /\ mpc = "recleaned" => recleaned = cleaned

\* "KerFuffle  a" was cleaned to "**** a", and cleaned again
C10_Witness ==
    /\ mpc = "recleaned"
    /\ body = KerFuffleMixed \o <<32, 32>> \o <<97>>
    /\ cleaned = Stars \o <<32, 97>>

====
